---- MODULE Spec2Model ----
(***************************************************************************)
(* Model of the Dyness Home Assistant integration: the API client          *)
(* (api.py), the polling coordinator (coordinator.py), the config flow     *)
(* (config_flow.py), the entry setup (__init__.py) and the readings        *)
(* (sensor.py).                                                            *)
(*                                                                         *)
(* Python values are modelled as tagged records.  A Python str is a        *)
(* sequence of one-character strings, so that str(), split() and strip()   *)
(* are computed; dict keys and point ids are kept as atomic strings.       *)
(***************************************************************************)
EXTENDS Integers, Sequences, FiniteSets, TLC

\* Longest power-history list the modelled service returns.
MaxRecords == 2

(***************************************************************************)
(* Python scalars                                                          *)
(***************************************************************************)
NoneV == [t |-> "none", i |-> 0, s |-> <<>>, k |-> ""]

IntV(n) == [t |-> "int", i |-> n, s |-> <<>>, k |-> ""]

FloatV(n) == [t |-> "float", i |-> n, s |-> <<>>, k |-> ""]

StrV(cs) == [t |-> "str", i |-> 0, s |-> cs, k |-> ""]

\* A str used as a point id (a dict key): kept atomic.
KeyV(name) == [t |-> "key", i |-> 0, s |-> <<>>, k |-> name]

Digits == <<"0", "1", "2", "3", "4", "5", "6", "7", "8", "9">>

RECURSIVE NatToStr(_)
NatToStr(n) ==
    IF n < 10 THEN <<Digits[n + 1]>>
    ELSE NatToStr(n \div 10) \o <<Digits[(n % 10) + 1]>>

IntToStr(n) == IF n < 0 THEN <<"-">> \o NatToStr(0 - n) ELSE NatToStr(n)

\* Python str(x), which is also what an f-string writes for x.
PyStr(x) ==
    CASE x.t = "str"   -> x.s
      [] x.t = "int"   -> IntToStr(x.i)
      [] x.t = "float" -> IntToStr(x.i) \o <<".", "0">>
      [] x.t = "none"  -> <<"N", "o", "n", "e">>
      [] OTHER         -> <<>>

(***************************************************************************)
(* Python dicts and JSON payloads                                          *)
(***************************************************************************)
EmptyMap == [x \in {} |-> NoneV]

Put(m, key, v) == [x \in DOMAIN m \cup {key} |-> IF x = key THEN v ELSE m[x]]

\* dict.get(key): None when the key is missing.
Get(m, key) == IF key \in DOMAIN m THEN m[key] ELSE NoneV

\* dict.get(key, default)
GetOr(m, key, default) == IF key \in DOMAIN m THEN m[key] ELSE default

\* A value that is a dict, a list, None, or missing: t is the kind, d the
\* dict's items, l the list's elements.
EmptyDict == [t |-> "dict", d |-> EmptyMap, l |-> <<>>]

DictV(m) == [t |-> "dict", d |-> m, l |-> <<>>]

ListV(es) == [t |-> "list", d |-> EmptyMap, l |-> es]

NullV == [t |-> "null", d |-> EmptyMap, l |-> <<>>]

AbsentV == [t |-> "absent", d |-> EmptyMap, l |-> <<>>]

\* An element of a JSON list: a dict of scalars, or something that is no dict.
EntryV(m) == [t |-> "dict", d |-> m]

NotADictEntry == [t |-> "int", d |-> EmptyMap]

\* Python truthiness of a dict / list / None value (the `x or []` test).
Truthy(v) ==
    CASE v.t = "dict" -> DOMAIN v.d # {}
      [] v.t = "list" -> Len(v.l) > 0
      [] OTHER        -> FALSE

(***************************************************************************)
(* api.py: registry, construction                                          *)
(***************************************************************************)
BASE_URLS ==
    [global |-> "https://open-api.dyness.com/openapi/ems-device",
     apac   |-> "https://apacopenapi.dyness.com/openapi/ems-device"]

\* BASE_URLS.get(region, BASE_URLS["global"])
BaseUrlFor(region) ==
    IF region \in DOMAIN BASE_URLS THEN BASE_URLS[region] ELSE BASE_URLS["global"]

\* DynessAPI.__init__(…, sn_module = "", region = "global")
DynessAPI(sn_module, region) ==
    [sn_module |-> sn_module, base_url |-> BaseUrlFor(region)]

PathDetail == "/v1/device/household/storage/detail"

PathPower == "/v1/device/getLastPowerDataBySn"

PathRealTime == "/v1/device/realTime/data"

(***************************************************************************)
(* api.py: one call, DynessAPI._post                                       *)
(***************************************************************************)
\* What the network gives back for one POST.  transport is "ok" when a body
\* was received and parsed as JSON; body.t is "dict" for a JSON object whose
\* code/info members are body.d and whose data member is body.data.
NoBody == [t |-> "none", d |-> EmptyMap, data |-> AbsentV]

Resp(transport, status, body) ==
    [transport |-> transport, status |-> status, body |-> body]

Env(members, payload) == [t |-> "dict", d |-> members, data |-> payload]

NoResp == Resp("none", 0, NoBody)

\* The exception session.post / resp.json raises for a transport fault.
TransportCause(transport) ==
    CASE transport = "conn_error" -> "ClientConnectorError"
      [] transport = "timeout"    -> "TimeoutError"
      [] transport = "bad_json"   -> "JSONDecodeError"
      [] OTHER                    -> ""

\* The result of a call: the envelope returned, or the exception raised.
\* A DynessAPIError carries the path and either code and info (f-string of
\* line 71) or the wrapped cause (line 77).
Returned(body) ==
    [kind |-> "return", exc |-> "", path |-> "", code |-> <<>>, info |-> <<>>,
     cause |-> "", env |-> body]

Rejected(path, body) ==
    [kind |-> "raise", exc |-> "DynessAPIError", path |-> path,
     code |-> PyStr(Get(body.d, "code")), info |-> PyStr(Get(body.d, "info")),
     cause |-> "", env |-> NoBody]

Wrapped(path, cause) ==
    [kind |-> "raise", exc |-> "DynessAPIError", path |-> path,
     code |-> <<>>, info |-> <<>>, cause |-> cause, env |-> NoBody]

NoOut ==
    [kind |-> "none", exc |-> "", path |-> "", code |-> <<>>, info |-> <<>>,
     cause |-> "", env |-> NoBody]

SUCCESS_CODES == {<<"0">>, <<"2", "0", "0">>}

\* A plausible slip: the code is compared without str(), so only str codes pass.
IsSuccessNoStr(body) ==
    /\ Get(body.d, "code").t = "str"
    /\ Get(body.d, "code").s \in SUCCESS_CODES

\* str(data.get("code")) in ("0", "200")
IsSuccess(body) == PyStr(Get(body.d, "code")) \in SUCCESS_CODES

post(path, resp) ==
    IF resp.transport # "ok" THEN Wrapped(path, TransportCause(resp.transport))
    ELSE IF resp.body.t # "dict" THEN Wrapped(path, "AttributeError")
    ELSE IF ~IsSuccess(resp.body) THEN Rejected(path, resp.body)
    ELSE Returned(resp.body)

\* The request of one call: url = base_url + path, body {"deviceSn": sn}.
Request(client, path, sn) ==
    [url |-> <<client.base_url, path>>, deviceSn |-> sn]

(***************************************************************************)
(* api.py: test_connection                                                 *)
(***************************************************************************)
\* What a public method gives its caller: a value or an exception.
Value(v) == [kind |-> "return", value |-> v, err |-> NoOut]

Raise(err) == [kind |-> "raise", value |-> NullV, err |-> err]

NoCall == [kind |-> "none", value |-> NullV, err |-> NoOut]

\* r.get("data", {})
DataOrEmptyDict(env) == IF env.data.t = "absent" THEN EmptyDict ELSE env.data

\* A plausible slip: the failure is swallowed like in get_all_data.
test_connection_swallows(out) ==
    IF out.kind = "raise" THEN Value(EmptyDict) ELSE Value(DataOrEmptyDict(out.env))

test_connection(out) ==
    IF out.kind = "raise" THEN Raise(out) ELSE Value(DataOrEmptyDict(out.env))

(***************************************************************************)
(* api.py: get_all_data, the processing of each response                   *)
(***************************************************************************)
\* The outcome of processing a response: exc is "" and val the section, or
\* exc names the exception the processing raises.
Val(v) == [exc |-> "", val |-> v]

Exc(name) == [exc |-> name, val |-> NullV]

\* r.get("data") or []
DataOrEmptyList(env) == IF Truthy(env.data) THEN env.data ELSE ListV(<<>>)

\* The elements a for-loop sees: a list's elements; a dict's keys, which are
\* strs and no dicts.
Elements(v) ==
    IF v.t = "list" THEN v.l
    ELSE [n \in 1..Cardinality(DOMAIN v.d) |-> [t |-> "str", d |-> EmptyMap]]

HasPower(x) == Get(x.d, "realTimePower").t # "none"

\* A plausible slip: records[0], the first usable entry, is taken.
PowerSectionFirst(env) ==
    LET xs == Elements(DataOrEmptyList(env))
        records == SelectSeq(xs, HasPower)
    IN  IF \E n \in 1..Len(xs) : xs[n].t # "dict" THEN Exc("AttributeError")
        ELSE IF Len(records) > 0 THEN Val(DictV(records[1].d))
        ELSE Val(EmptyDict)

\* lines 116-120
PowerSection(env) ==
    LET xs == Elements(DataOrEmptyList(env))
        records == SelectSeq(xs, HasPower)
    IN  IF \E n \in 1..Len(xs) : xs[n].t # "dict" THEN Exc("AttributeError")
        ELSE IF Len(records) > 0 THEN Val(DictV(records[Len(records)].d))
        ELSE Val(EmptyDict)

\* {p["pointId"]: p["pointValue"] for p in xs}
RECURSIVE BuildPoints(_, _)
BuildPoints(xs, acc) ==
    IF xs = <<>> THEN Val(DictV(acc))
    ELSE LET p == Head(xs)
         IN  IF p.t # "dict" THEN Exc("TypeError")
             ELSE IF "pointId" \notin DOMAIN p.d \/ "pointValue" \notin DOMAIN p.d
                  THEN Exc("KeyError")
             ELSE BuildPoints(Tail(xs), Put(acc, p.d["pointId"].k, p.d["pointValue"]))

\* lines 132-135 and 154-157
PointsSection(env) == BuildPoints(Elements(DataOrEmptyList(env)), EmptyMap)

\* str.strip() for the blank character.
RECURSIVE LStrip(_)
LStrip(cs) == IF cs # <<>> /\ Head(cs) = " " THEN LStrip(Tail(cs)) ELSE cs

RECURSIVE RStrip(_)
RStrip(cs) ==
    IF cs # <<>> /\ cs[Len(cs)] = " " THEN RStrip(SubSeq(cs, 1, Len(cs) - 1)) ELSE cs

Strip(cs) == RStrip(LStrip(cs))

\* str.split(","): the pieces between commas, empty pieces included.
RECURSIVE SplitFrom(_, _)
SplitFrom(cs, piece) ==
    IF cs = <<>> THEN <<piece>>
    ELSE IF Head(cs) = "," THEN <<piece>> \o SplitFrom(Tail(cs), <<>>)
    ELSE SplitFrom(Tail(cs), Append(piece, Head(cs)))

Split(cs) == SplitFrom(cs, <<>>)

NonBlank(piece) == Strip(piece) # <<>>

\* A plausible slip: the kept pieces are not stripped.
ModulesUnstripped(cs) == SelectSeq(Split(cs), NonBlank)

\* [s.strip() for s in sub.split(",") if s.strip()]
Modules(cs) ==
    LET kept == SelectSeq(Split(cs), NonBlank)
    IN  [n \in 1..Len(kept) |-> Strip(kept[n])]

\* A plausible slip: the `if not self.sn_module` guard is missing.
DiscoverUnguarded(sn_module, bms) ==
    LET sub == GetOr(bms.d, "SUB", StrV(<<>>))
    IN  IF sub.t # "str" THEN [exc |-> "AttributeError", sn |-> sn_module]
        ELSE IF Modules(sub.s) # <<>> THEN [exc |-> "", sn |-> Modules(sub.s)[1]]
        ELSE [exc |-> "", sn |-> sn_module]

\* lines 137-142: the module serial after the BMS section was built.
Discover(sn_module, bms) ==
    IF sn_module # <<>> THEN [exc |-> "", sn |-> sn_module]
    ELSE LET sub == GetOr(bms.d, "SUB", StrV(<<>>))
         IN  IF sub.t # "str" THEN [exc |-> "AttributeError", sn |-> sn_module]
             ELSE IF Modules(sub.s) # <<>> THEN [exc |-> "", sn |-> Modules(sub.s)[1]]
             ELSE [exc |-> "", sn |-> sn_module]

(***************************************************************************)
(* What the remote service may answer                                      *)
(***************************************************************************)
InvalidSignature == StrV(<<"b", "a", "d", " ", "s", "i", "g">>)

\* The code member of an answer; AnswerMembers adds the info member.
Codes ==
    {IntV(0), IntV(200), StrV(<<"0">>), StrV(<<"2", "0", "0">>),
     IntV(1), StrV(<<"1">>), FloatV(200), NoneV}

Ok0 == "code" :> IntV(0) @@ "info" :> StrV(<<"o", "k">>)

Code1 == "code" :> StrV(<<"1">>) @@ "info" :> InvalidSignature

AnswerMembers ==
    {"code" :> c @@ "info" :> InvalidSignature : c \in Codes}
        \cup {"info" :> InvalidSignature, "code" :> StrV(<<"1">>)}

\* No answer, or an answer that is no JSON object.
Faults ==
    {Resp("conn_error", 0, NoBody), Resp("timeout", 0, NoBody),
     Resp("bad_json", 200, NoBody),
     Resp("ok", 200, [t |-> "list", d |-> EmptyMap, data |-> AbsentV])}

DeviceDetail ==
    DictV("deviceCommunicationStatus" :> StrV(<<"o", "n">>)
            @@ "firmwareVersion" :> StrV(<<"v", "2">>)
            @@ "stationName" :> StrV(<<"h", "o", "m", "e">>))

DevicePayloads == {DeviceDetail, NullV, AbsentV}

RtpNull == EntryV("realTimePower" :> NoneV @@ "soc" :> StrV(<<"4", "0">>))

Rtp5 == EntryV("realTimePower" :> IntV(5) @@ "soc" :> StrV(<<"4", "1">>))

RtpNeg20 == EntryV("realTimePower" :> StrV(<<"-", "2", "0">>) @@ "soc" :> StrV(<<"4", "2">>))

RtpMissing == EntryV("soc" :> StrV(<<"4", "3">>))

PowerEntries == {RtpNull, Rtp5, RtpNeg20}

PowerLists == UNION {[1..n -> PowerEntries] : n \in 0..MaxRecords}

PowerPayloads ==
    {ListV(l) : l \in PowerLists}
        \cup {NullV, AbsentV, ListV(<<RtpNull, Rtp5, RtpNull>>),
              ListV(<<Rtp5, RtpMissing>>), ListV(<<Rtp5, NotADictEntry>>),
              DictV("total" :> IntV(1))}

Point(id, v) == EntryV("pointId" :> KeyV(id) @@ "pointValue" :> v)

BmsPayloads ==
    {ListV(<<Point("SUB", StrV(<<" ", "A", "1", " ", ",", "B", "2">>)),
             Point("4008", StrV(<<"1">>)), Point("4007", StrV(<<"1">>)),
             Point("4100", StrV(<<"0">>)), Point("1300", StrV(<<"3">>)),
             Point("1500", StrV(<<"2">>))>>),
     ListV(<<Point("SUB", StrV(<<"B", "2">>)), Point("4008", StrV(<<"0">>)),
             Point("4100", StrV(<<"1">>)), Point("1200", StrV(<<"n", "u", "l", "l">>))>>),
     ListV(<<Point("SUB", StrV(<<" ", ",", " ">>)), Point("1200", StrV(<<"9", "9">>))>>),
     NullV,
     ListV(<<Point("SUB", NoneV)>>),
     ListV(<<Point("1200", StrV(<<"9", "8">>)), EntryV("pointId" :> KeyV("SUB"))>>)}

DonglePayloads ==
    {ListV(<<Point("800000", StrV(<<"-", "7", "0">>))>>),
     NullV,
     ListV(<<EntryV("pointValue" :> StrV(<<"1">>))>>),
     ListV(<<NotADictEntry>>)}

\* Every answer to test_connection's call: every fault, and every code under
\* both HTTP statuses with every payload.
FlowResponses ==
    Faults \cup {Resp("ok", st, Env(m, p)) :
                    m \in AnswerMembers, st \in {200, 500}, p \in DevicePayloads}

\* The answers to a call of a polling cycle: a transport fault, a rejection, a
\* success-coded answer under HTTP 500, and a success with each payload.
CycleResponses(payloads) ==
    {Resp("timeout", 0, NoBody), Resp("ok", 200, Env(Code1, AbsentV))}
        \cup {Resp("ok", 500, Env("code" :> StrV(<<"2", "0", "0">>), NullV))}
        \cup {Resp("ok", 200, Env(Ok0, p)) : p \in payloads}

UserInputs == {[region |-> "global"], [region |-> "apac"]}

(***************************************************************************)
(* sensor.py: the readings                                                 *)
(***************************************************************************)
IsDigit(c) == \E n \in 1..10 : Digits[n] = c

DigitValue(c) == (CHOOSE n \in 1..10 : Digits[n] = c) - 1

RECURSIVE DigitsValue(_, _)
DigitsValue(cs, acc) ==
    IF cs = <<>> THEN acc ELSE DigitsValue(Tail(cs), 10 * acc + DigitValue(Head(cs)))

AllDigits(cs) == cs # <<>> /\ \A n \in 1..Len(cs) : IsDigit(cs[n])

\* float(val) for the values of this model (whole numbers): [exc, n].
\* float() of a str ignores surrounding blanks and takes a sign.
ToFloat(val) ==
    CASE val.t \in {"int", "float"} -> [exc |-> "", n |-> val.i]
      [] val.t = "str" ->
            LET cs == Strip(val.s)
            IN  IF AllDigits(cs) THEN [exc |-> "", n |-> DigitsValue(cs, 0)]
                ELSE IF cs # <<>> /\ Head(cs) = "-" /\ AllDigits(Tail(cs))
                     THEN [exc |-> "", n |-> 0 - DigitsValue(Tail(cs), 0)]
                ELSE [exc |-> "ValueError", n |-> 0]
      [] OTHER -> [exc |-> "TypeError", n |-> 0]

\* _safe_float(val): None for None, "" and "null" and for what float() refuses.
safe_float(val) ==
    IF val = NoneV \/ val = StrV(<<>>) \/ val = StrV(<<"n", "u", "l", "l">>) THEN NoneV
    ELSE IF ToFloat(val).exc # "" THEN NoneV
    ELSE FloatV(ToFloat(val).n)

\* Python truthiness of a scalar.
TruthyScalar(v) ==
    CASE v.t = "str"              -> v.s # <<>>
      [] v.t \in {"int", "float"} -> v.i # 0
      [] v.t = "key"              -> v.k # ""
      [] OTHER                    -> FALSE

\* d.get(section, {}): the snapshot's section, {} when the key is missing.
SectionOf(d, section) == GetOr(d, section, EmptyDict)

\* _power_status(data), given the power section
power_status(sec) ==
    LET pwr == safe_float(Get(sec.d, "realTimePower"))
    IN  IF pwr = NoneV THEN KeyV("Unknown")
        ELSE IF pwr.i > 10 THEN KeyV("Charging")
        ELSE IF pwr.i < -10 THEN KeyV("Discharging")
        ELSE KeyV("Standby")

\* The entries of SENSORS: key, the shape of value_fn, and the section and
\* field value_fn reads.
SENSORS ==
    <<
      [key |-> "battery_power", fn |-> "safe_float", section |-> "power", field |-> "realTimePower"],
      [key |-> "battery_current", fn |-> "safe_float", section |-> "power", field |-> "realTimeCurrent"],
      [key |-> "battery_status", fn |-> "power_status", section |-> "power", field |-> "realTimePower"],
      [key |-> "battery_soc", fn |-> "safe_float", section |-> "power", field |-> "soc"],
      [key |-> "battery_soh", fn |-> "safe_float", section |-> "bms", field |-> "1200"],
      [key |-> "pack_voltage", fn |-> "safe_float", section |-> "bms", field |-> "600"],
      [key |-> "cell_voltage_max", fn |-> "safe_float", section |-> "bms", field |-> "1300"],
      [key |-> "cell_voltage_min", fn |-> "safe_float", section |-> "bms", field |-> "1500"],
      [key |-> "cell_voltage_spread", fn |-> "spread", section |-> "bms", field |-> "1300"],
      [key |-> "cell_voltage_max_cell_num", fn |-> "get", section |-> "bms", field |-> "1402"],
      [key |-> "cell_voltage_min_cell_num", fn |-> "get", section |-> "bms", field |-> "1602"],
      [key |-> "charge_voltage_upper", fn |-> "safe_float", section |-> "bms", field |-> "3600"],
      [key |-> "charge_voltage_lower", fn |-> "safe_float", section |-> "bms", field |-> "3700"],
      [key |-> "cell_temp_max", fn |-> "safe_float", section |-> "bms", field |-> "1800"],
      [key |-> "cell_temp_min", fn |-> "safe_float", section |-> "bms", field |-> "2000"],
      [key |-> "mosfet_temp_max", fn |-> "safe_float", section |-> "bms", field |-> "2300"],
      [key |-> "bms_temp_max", fn |-> "safe_float", section |-> "bms", field |-> "2800"],
      [key |-> "bms_temp_min", fn |-> "safe_float", section |-> "bms", field |-> "3000"],
      [key |-> "max_charge_current", fn |-> "safe_float", section |-> "bms", field |-> "3800"],
      [key |-> "max_discharge_current", fn |-> "safe_float", section |-> "bms", field |-> "3900"],
      [key |-> "charge_enable", fn |-> "enabled", section |-> "bms", field |-> "4008"],
      [key |-> "discharge_enable", fn |-> "enabled", section |-> "bms", field |-> "4007"],
      [key |-> "alarm_status", fn |-> "alarm", section |-> "bms", field |-> "4100"],
      [key |-> "communication_status", fn |-> "get_or_unknown", section |-> "device", field |-> "deviceCommunicationStatus"],
      [key |-> "firmware_version", fn |-> "get", section |-> "device", field |-> "firmwareVersion"],
      [key |-> "signal_strength", fn |-> "safe_float", section |-> "dongle", field |-> "800000"],
      [key |-> "last_update", fn |-> "get", section |-> "device", field |-> "dataUpdateTime"]
    >>

\* entity_description.value_fn(d): [exc, val]; a section that is no dict has
\* no .get, which raises AttributeError.
value_fn(sensor, d) ==
    LET sec == SectionOf(d, sensor.section)
        v   == Get(sec.d, sensor.field)
    IN  IF sec.t # "dict" THEN [exc |-> "AttributeError", val |-> NoneV]
        ELSE CASE sensor.fn = "safe_float" -> [exc |-> "", val |-> safe_float(v)]
               [] sensor.fn = "power_status" -> [exc |-> "", val |-> power_status(sec)]
               [] sensor.fn = "get" -> [exc |-> "", val |-> v]
               [] sensor.fn = "get_or_unknown" ->
                    [exc |-> "", val |-> GetOr(sec.d, sensor.field, KeyV("Unknown"))]
               [] sensor.fn = "enabled" ->
                    [exc |-> "",
                     val |-> IF v = StrV(<<"1">>) THEN KeyV("Enabled") ELSE KeyV("Disabled")]
               [] sensor.fn = "alarm" ->
                    [exc |-> "",
                     val |-> IF v = StrV(<<"0">>) THEN KeyV("OK") ELSE KeyV("ALARM")]
               [] sensor.fn = "spread" ->
                    LET hi == Get(sec.d, "1300")
                        lo == Get(sec.d, "1500")
                    IN  IF ~(TruthyScalar(hi) /\ TruthyScalar(lo))
                        THEN [exc |-> "", val |-> NoneV]
                        ELSE IF ToFloat(hi).exc # "" THEN [exc |-> ToFloat(hi).exc, val |-> NoneV]
                        ELSE IF ToFloat(lo).exc # "" THEN [exc |-> ToFloat(lo).exc, val |-> NoneV]
                        ELSE [exc |-> "", val |-> FloatV(ToFloat(hi).n - ToFloat(lo).n)]

\* DynessSensor.native_value, given coordinator.data
native_value(sensor, cdata) ==
    IF cdata.t # "dict" \/ DOMAIN cdata.d = {} THEN NoneV
    ELSE IF value_fn(sensor, cdata.d).exc # "" THEN NoneV
    ELSE value_fn(sensor, cdata.d).val

(***************************************************************************)
(* State                                                                   *)
(***************************************************************************)
VARIABLES
    pc,        \* where the integration is: "flow" (config flow form), "entry"
               \* (entry created), "idle" (between polls), "device" / "power" /
               \* "bms" / "dongle" (get_all_data awaiting that call), "return" /
               \* "raised" (get_all_data leaving its session block)
    entry,     \* the config entry: created, and its data (the user input)
    flow_api,  \* the DynessAPI built by validate_input
    errors,    \* errors["base"] of async_step_user
    tc_out,    \* what test_connection gave validate_input
    api,       \* the DynessAPI built by async_setup_entry
    result,    \* get_all_data's dict under construction
    exc,       \* the exception leaving get_all_data, "" if none
    data,      \* coordinator.data, what the sensors read
    cycle,     \* how the last polling cycle ended
    attempts,  \* the requests sent by the current operation, in order
    outcomes,  \* per section of the current cycle: "ok", "api_error", "exception"
    lastResp,  \* the answer to the latest call
    lastOut    \* what _post did with it

vars ==
    <<pc, entry, flow_api, errors, tc_out, api, result, exc, data, cycle,
      attempts, outcomes, lastResp, lastOut>>

SnBms == "SN-BMS"

SnDongle == "SN-DONGLE"

NoClient == [sn_module |-> <<>>, base_url |-> ""]

NoEntry == [created |-> FALSE, data |-> [region |-> ""]]

\* coordinator.data: None before the first successful refresh, then a snapshot.
NoData == [t |-> "none", d |-> EmptyMap]

SnapV(m) == [t |-> "dict", d |-> m]

Init ==
    /\ pc = "flow"
    /\ entry = NoEntry
    /\ flow_api = NoClient
    /\ errors = ""
    /\ tc_out = NoCall
    /\ api = NoClient
    /\ result = EmptyMap
    /\ exc = ""
    /\ data = NoData
    /\ cycle = "none"
    /\ attempts = <<>>
    /\ outcomes = EmptyMap
    /\ lastResp = NoResp
    /\ lastOut = NoOut

(***************************************************************************)
(* config_flow.py                                                          *)
(***************************************************************************)
\* validate_input: the client it builds.
ValidationClient(user_input) == DynessAPI(<<>>, GetOr(user_input, "region", "global"))

\* async_step_user's errors["base"] for what test_connection gave: the
\* DynessAPIError is "cannot_connect"; device_info.get on a value that is no
\* dict raises AttributeError, which is "unknown".
FlowError(tc) ==
    IF tc.kind = "raise" THEN "cannot_connect"
    ELSE IF tc.value.t # "dict" THEN "unknown"
    ELSE ""

\* async_step_user with a submitted form.
AsyncStepUser(user_input, resp) ==
    /\ pc = "flow"
    /\ LET client == ValidationClient(user_input)
           out    == post(PathDetail, resp)
           tc     == test_connection(out)
       IN  /\ flow_api' = client
           /\ attempts' = <<Request(client, PathDetail, SnBms)>>
           /\ lastResp' = resp
           /\ lastOut' = out
           /\ tc_out' = tc
           /\ errors' = FlowError(tc)
           /\ entry' = IF FlowError(tc) = ""
                       THEN [created |-> TRUE, data |-> user_input] ELSE entry
           /\ pc' = IF FlowError(tc) = "" THEN "entry" ELSE "flow"
    /\ UNCHANGED <<api, result, exc, data, cycle, outcomes>>

(***************************************************************************)
(* __init__.py                                                             *)
(***************************************************************************)
\* The client async_setup_entry builds from entry.data: api_id, api_secret,
\* sn_bms and sn_dongle are passed, sn_module and region are left to their
\* defaults.
PollingClient(entry_data) == DynessAPI(<<>>, "global")

\* async_setup_entry, up to the first refresh.
AsyncSetupEntry ==
    /\ pc = "entry"
    /\ api' = PollingClient(entry.data)
    /\ pc' = "idle"
    /\ tc_out' = NoCall
    /\ attempts' = <<>>
    /\ lastResp' = NoResp
    /\ lastOut' = NoOut
    /\ UNCHANGED <<entry, flow_api, errors, result, exc, data, cycle, outcomes>>

(***************************************************************************)
(* api.py get_all_data and coordinator.py: one polling cycle               *)
(***************************************************************************)
\* A plausible slip: the handler only logs.
OnApiErrorOnlyLogs(res, key) == res

\* except DynessAPIError: result[key] = {}
OnApiError(res, key) == Put(res, key, EmptyDict)

\* The coordinator starts a refresh: get_all_data begins with result = {}.
StartCycle ==
    /\ pc = "idle"
    /\ pc' = "device"
    /\ result' = EmptyMap
    /\ exc' = ""
    /\ cycle' = "running"
    /\ attempts' = <<>>
    /\ outcomes' = EmptyMap
    /\ lastResp' = NoResp
    /\ lastOut' = NoOut
    /\ UNCHANGED <<entry, flow_api, errors, tc_out, api, data>>

\* 1. Device info (lines 98-107)
FetchDevice(resp) ==
    /\ pc = "device"
    /\ LET out == post(PathDetail, resp)
       IN  /\ attempts' = Append(attempts, Request(api, PathDetail, SnBms))
           /\ lastResp' = resp
           /\ lastOut' = out
           /\ result' = IF out.kind = "raise" THEN OnApiError(result, "device")
                        ELSE Put(result, "device", DataOrEmptyDict(out.env))
           /\ outcomes' = Put(outcomes, "device",
                              IF out.kind = "raise" THEN "api_error" ELSE "ok")
    /\ pc' = "power"
    /\ UNCHANGED <<entry, flow_api, errors, tc_out, api, exc, data, cycle>>

\* 2. Power / SOC history (lines 110-123)
FetchPower(resp) ==
    /\ pc = "power"
    /\ LET out  == post(PathPower, resp)
           proc == PowerSection(out.env)
       IN  /\ attempts' = Append(attempts, Request(api, PathPower, SnBms))
           /\ lastResp' = resp
           /\ lastOut' = out
           /\ IF out.kind = "raise"
              THEN /\ result' = OnApiError(result, "power")
                   /\ outcomes' = Put(outcomes, "power", "api_error")
                   /\ pc' = "bms"
                   /\ exc' = exc
              ELSE IF proc.exc # ""
              THEN /\ result' = result
                   /\ outcomes' = Put(outcomes, "power", "exception")
                   /\ pc' = "raised"
                   /\ exc' = proc.exc
              ELSE /\ result' = Put(result, "power", proc.val)
                   /\ outcomes' = Put(outcomes, "power", "ok")
                   /\ pc' = "bms"
                   /\ exc' = exc
    /\ UNCHANGED <<entry, flow_api, errors, tc_out, api, data, cycle>>

\* 3. BMS real-time points and the discovery of the module SN (lines 126-145)
FetchBms(resp) ==
    /\ pc = "bms"
    /\ LET out  == post(PathRealTime, resp)
           proc == PointsSection(out.env)
           disc == Discover(api.sn_module, proc.val)
       IN  /\ attempts' = Append(attempts, Request(api, PathRealTime, SnBms))
           /\ lastResp' = resp
           /\ lastOut' = out
           /\ IF out.kind = "raise"
              THEN /\ result' = OnApiError(result, "bms")
                   /\ outcomes' = Put(outcomes, "bms", "api_error")
                   /\ pc' = "dongle"
                   /\ exc' = exc
                   /\ api' = api
              ELSE IF proc.exc # ""
              THEN /\ result' = result
                   /\ outcomes' = Put(outcomes, "bms", "exception")
                   /\ pc' = "raised"
                   /\ exc' = proc.exc
                   /\ api' = api
              ELSE IF disc.exc # ""
              THEN /\ result' = Put(result, "bms", proc.val)
                   /\ outcomes' = Put(outcomes, "bms", "exception")
                   /\ pc' = "raised"
                   /\ exc' = disc.exc
                   /\ api' = api
              ELSE /\ result' = Put(result, "bms", proc.val)
                   /\ outcomes' = Put(outcomes, "bms", "ok")
                   /\ pc' = "dongle"
                   /\ exc' = exc
                   /\ api' = [api EXCEPT !.sn_module = disc.sn]
    /\ UNCHANGED <<entry, flow_api, errors, tc_out, data, cycle>>

\* 4. Dongle points (lines 148-160)
FetchDongle(resp) ==
    /\ pc = "dongle"
    /\ LET out  == post(PathRealTime, resp)
           proc == PointsSection(out.env)
       IN  /\ attempts' = Append(attempts, Request(api, PathRealTime, SnDongle))
           /\ lastResp' = resp
           /\ lastOut' = out
           /\ IF out.kind = "raise"
              THEN /\ result' = OnApiError(result, "dongle")
                   /\ outcomes' = Put(outcomes, "dongle", "api_error")
                   /\ pc' = "return"
                   /\ exc' = exc
              ELSE IF proc.exc # ""
              THEN /\ result' = result
                   /\ outcomes' = Put(outcomes, "dongle", "exception")
                   /\ pc' = "raised"
                   /\ exc' = proc.exc
              ELSE /\ result' = Put(result, "dongle", proc.val)
                   /\ outcomes' = Put(outcomes, "dongle", "ok")
                   /\ pc' = "return"
                   /\ exc' = exc
    /\ UNCHANGED <<entry, flow_api, errors, tc_out, api, data, cycle>>

\* What get_all_data gives the coordinator.
Snapshot(res) == [kind |-> "return", snap |-> res, exc |-> ""]

Escaping(name) == [kind |-> "raise", snap |-> EmptyMap, exc |-> name]

\* A plausible slip: any failure of the cycle is answered with an empty dict.
async_update_data_returns_empty(got) ==
    IF got.kind = "raise" THEN Snapshot(EmptyMap) ELSE got

\* DynessCoordinator._async_update_data: the snapshot is returned as it is, a
\* DynessAPIError becomes UpdateFailed, any other exception passes.
async_update_data(got) ==
    IF got.kind = "raise" /\ got.exc = "DynessAPIError"
    THEN [got EXCEPT !.exc = "UpdateFailed"]
    ELSE got

\* The DataUpdateCoordinator base class: data is replaced by what
\* _async_update_data returns, and kept when it raises.
Refreshed(old, update) == IF update.kind = "return" THEN SnapV(update.snap) ELSE old

\* get_all_data returns result; the coordinator stores it.
CycleReturn ==
    /\ pc = "return"
    /\ data' = Refreshed(data, async_update_data(Snapshot(result)))
    /\ cycle' = "ok"
    /\ pc' = "idle"
    /\ result' = EmptyMap
    /\ attempts' = <<>>
    /\ lastResp' = NoResp
    /\ lastOut' = NoOut
    /\ UNCHANGED <<entry, flow_api, errors, tc_out, api, exc, outcomes>>

\* An exception leaves get_all_data; the coordinator marks the cycle failed.
CycleRaise ==
    /\ pc = "raised"
    /\ data' = Refreshed(data, async_update_data(Escaping(exc)))
    /\ cycle' = "failed"
    /\ pc' = "idle"
    /\ result' = EmptyMap
    /\ exc' = ""
    /\ attempts' = <<>>
    /\ lastResp' = NoResp
    /\ lastOut' = NoOut
    /\ UNCHANGED <<entry, flow_api, errors, tc_out, api, outcomes>>

\* The polling task is cancelled while get_all_data awaits a call.
Cancel ==
    /\ pc \in {"device", "power", "bms", "dongle"}
    /\ cycle' = "cancelled"
    /\ pc' = "idle"
    /\ result' = EmptyMap
    /\ attempts' = <<>>
    /\ outcomes' = EmptyMap
    /\ lastResp' = NoResp
    /\ lastOut' = NoOut
    /\ UNCHANGED <<entry, flow_api, errors, tc_out, api, exc, data>>

Next ==
    \/ \E u \in UserInputs, r \in FlowResponses : AsyncStepUser(u, r)
    \/ AsyncSetupEntry
    \/ StartCycle
    \/ \E r \in CycleResponses(DevicePayloads) : FetchDevice(r)
    \/ \E r \in CycleResponses(PowerPayloads) : FetchPower(r)
    \/ \E r \in CycleResponses(BmsPayloads) : FetchBms(r)
    \/ \E r \in CycleResponses(DonglePayloads) : FetchDongle(r)
    \/ CycleReturn
    \/ CycleRaise
    \/ Cancel

Spec == Init /\ [][Next]_vars

(***************************************************************************)
(* Properties                                                              *)
(***************************************************************************)
SectionKeys == {"device", "power", "bms", "dongle"}

SectionOrder == <<"device", "power", "bms", "dongle">>

InCycle == pc \in {"power", "bms", "dongle", "return", "raised"}

\* The section the latest call of the running cycle was made for.
LastSection == SectionOrder[Len(attempts)]

\* C1: whenever get_all_data returns, and whenever the coordinator holds a
\* snapshot, its keys are exactly device, power, bms and dongle, whichever of
\* the four calls failed with the API error.
C1_ExactlyFourKeys ==
    /\ pc = "return" => DOMAIN result = SectionKeys
    /\ data.t = "dict" => DOMAIN data.d = SectionKeys

\* get_all_data returns although all four calls failed.
C1_AllFourFailed ==
    /\ pc = "return"
    /\ \A key \in SectionKeys : outcomes[key] = "api_error"

\* The section a successful answer gives, as the claim's "value derived from
\* that call's response".
Derived(key, env) ==
    CASE key = "device" -> DataOrEmptyDict(env)
      [] key = "power"  -> PowerSection(env).val
      [] OTHER          -> PointsSection(env).val

\* C2: in a polling cycle no exception leaves get_all_data; after each call
\* the section of a call that failed with the API error is the empty map and
\* the section of any other call is the value derived from its answer.
C2_FailuresIsolated ==
    InCycle =>
        /\ pc # "raised"
        /\ LastSection \in DOMAIN result
        /\ lastOut.kind = "raise" => result[LastSection] = EmptyDict
        /\ lastOut.kind = "return" => result[LastSection] = Derived(LastSection, lastOut.env)

\* C3: a step changes the polling client's module serial only from empty to
\* non-empty; once non-empty it stays what it is.
C3_ModuleSerialWriteOnce ==
    [][/\ api.sn_module # <<>> => api'.sn_module = api.sn_module
       /\ api'.sn_module # api.sn_module => api.sn_module = <<>> /\ api'.sn_module # <<>>
       /\ flow_api.sn_module # <<>> => flow_api'.sn_module = flow_api.sn_module]_vars

\* The serial discovered earlier is A1 and the BMS answer just stored names B2.
C3_LaterSubIgnored ==
    /\ pc = "dongle"
    /\ api.sn_module = <<"A", "1">>
    /\ "bms" \in DOMAIN result
    /\ Get(result["bms"].d, "SUB") = StrV(<<"B", "2">>)

\* The code members the claim counts as success: 0 and 200, as number or str.
SuccessValues == {IntV(0), IntV(200), StrV(<<"0">>), StrV(<<"2", "0", "0">>)}

Accepted(resp) ==
    /\ resp.transport = "ok"
    /\ resp.body.t = "dict"
    /\ "code" \in DOMAIN resp.body.d
    /\ resp.body.d["code"] \in SuccessValues

\* C4: a call returns the envelope exactly when an answer was received and
\* parsed and its code is 0 or 200 (number or str), whatever the HTTP status;
\* otherwise it raises DynessAPIError and nothing else.
C4_PostClassifies ==
    lastResp # NoResp =>
        /\ Accepted(lastResp) => lastOut.kind = "return" /\ lastOut.env = lastResp.body
        /\ ~Accepted(lastResp) => lastOut.kind = "raise" /\ lastOut.exc = "DynessAPIError"

\* An answer with numeric code 200 under HTTP 500 was returned as a success.
C4_Numeric200UnderHttp500 ==
    /\ lastResp.transport = "ok"
    /\ lastResp.status = 500
    /\ Get(lastResp.body.d, "code") = IntV(200)
    /\ lastOut.kind = "return"

\* C5: when test_connection's call fails, test_connection raises that very
\* DynessAPIError; for a rejection it carries the answer's code and info (code
\* "1" and "bad sig" for that answer); a payload is returned only on success.
C5_VerifySurfacesFailure ==
    tc_out.kind # "none" =>
        /\ lastOut.kind = "raise" =>
              /\ tc_out.kind = "raise"
              /\ tc_out.err = lastOut
              /\ tc_out.err.exc = "DynessAPIError"
        /\ (lastResp.transport = "ok" /\ lastResp.body.t = "dict" /\ ~Accepted(lastResp)) =>
              /\ tc_out.kind = "raise"
              /\ tc_out.err.code = PyStr(Get(lastResp.body.d, "code"))
              /\ tc_out.err.info = PyStr(Get(lastResp.body.d, "info"))
        /\ lastResp.body.d = Code1 =>
              /\ tc_out.err.code = <<"1">>
              /\ tc_out.err.info = <<"b", "a", "d", " ", "s", "i", "g">>
        /\ tc_out.kind = "return" =>
              /\ Accepted(lastResp)
              /\ tc_out.value = DataOrEmptyDict(lastResp.body)

\* test_connection was rejected with code "1" and the flow shows cannot_connect.
C5_RejectedWithCodeAndInfo ==
    /\ tc_out.kind = "raise"
    /\ lastResp.body.d = Code1
    /\ tc_out.err.code = <<"1">>
    /\ errors = "cannot_connect"

\* The four requests of a cycle, in order.
CycleRequests(client) ==
    <<Request(client, PathDetail, SnBms), Request(client, PathPower, SnBms),
      Request(client, PathRealTime, SnBms), Request(client, PathRealTime, SnDongle)>>

\* C6: when get_all_data ends, by return or by exception, it has sent exactly
\* the four requests device, power, bms, dongle in this order; test_connection
\* has sent exactly one.
C6_FourAttemptsInOrder ==
    /\ pc \in {"return", "raised"} => attempts = CycleRequests(api)
    /\ tc_out.kind # "none" => attempts = <<Request(flow_api, PathDetail, SnBms)>>

\* C7: coordinator.data changes only in the step in which get_all_data
\* returns, and then to the whole four-section result of that cycle.
C7_SnapshotReplacedWhole ==
    [][data' # data =>
          /\ pc = "return"
          /\ DOMAIN result = SectionKeys
          /\ data' = SnapV(result)]_vars

\* A cycle ended with an exception and the sensors still read a snapshot.
C7_FailedCycleKeepsSnapshot ==
    /\ cycle = "failed"
    /\ data.t = "dict"

\* C8: every section of get_all_data's result and of the coordinator's
\* snapshot is a dict.
C8_SectionsAreMaps ==
    /\ \A key \in DOMAIN result : result[key].t = "dict"
    /\ \A key \in DOMAIN data.d : data.d[key].t = "dict"

\* C9: after a cycle in which the call of a section failed, every sensor that
\* reads that section has no value.
C9_FailedSectionUnavailable ==
    (pc = "idle" /\ cycle = "ok") =>
        \A n \in 1..Len(SENSORS) :
            outcomes[SENSORS[n].section] = "api_error" => native_value(SENSORS[n], data) = NoneV

\* C10: the polling client's base URL is the registry entry of the region in
\* the entry's data, the one the validating client used, and every request of
\* a cycle goes there.
C10_RegionBaseUrl ==
    api # NoClient =>
        /\ api.base_url = BaseUrlFor(GetOr(entry.data, "region", "global"))
        /\ api.base_url = flow_api.base_url
        /\ InCycle => \A n \in 1..Len(attempts) : attempts[n].url[1] = flow_api.base_url

\* An entry whose realTimePower member is present and not null.
Qualifies(x) == "realTimePower" \in DOMAIN x.d /\ x.d["realTimePower"] # NoneV

\* The list the power-history answer carries; empty when data is no list.
ReturnedList(env) == IF env.data.t = "list" THEN env.data.l ELSE <<>>

\* C11: after a successful power-history call the power section is the entry
\* at the greatest position of the returned list whose realTimePower is present
\* and not null, and the empty map when the list is empty or null or has no
\* such entry.
C11_LastUsablePowerEntry ==
    (InCycle /\ LastSection = "power" /\ lastOut.kind = "return" /\ "power" \in DOMAIN result) =>
        LET xs == ReturnedList(lastOut.env)
        IN  IF \E n \in 1..Len(xs) : Qualifies(xs[n])
            THEN \E n \in 1..Len(xs) :
                    /\ Qualifies(xs[n])
                    /\ \A m \in (n + 1)..Len(xs) : ~Qualifies(xs[m])
                    /\ result["power"] = DictV(xs[n].d)
            ELSE result["power"] = EmptyDict

\* The answer [{null}, {5}, {null}] was stored as the entry with 5.
C11_MiddleEntrySelected ==
    /\ pc = "bms"
    /\ lastOut.kind = "return"
    /\ lastOut.env.data = ListV(<<RtpNull, Rtp5, RtpNull>>)
    /\ result["power"] = DictV(Rtp5.d)

\* A blank or a comma.
IsSep(c) == c = " " \/ c = ","

HasToken(cs) == \E n \in 1..Len(cs) : ~IsSep(cs[n])

\* tok is the first token of cs: only blanks and commas come before it, it
\* starts and ends with a character that is neither, it holds no comma, and
\* only blanks follow it up to the next comma or the end.
IsFirstToken(cs, tok) ==
    \E a \in 1..Len(cs) : \E b \in a..Len(cs) :
        /\ tok = SubSeq(cs, a, b)
        /\ \A n \in 1..(a - 1) : IsSep(cs[n])
        /\ ~IsSep(cs[a]) /\ ~IsSep(cs[b])
        /\ \A n \in a..b : cs[n] # ","
        /\ \E e \in b..Len(cs) :
              /\ \A n \in (b + 1)..e : cs[n] = " "
              /\ e = Len(cs) \/ cs[e + 1] = ","

\* The values the answer's list gives for the point SUB.
SubValues(env) ==
    LET xs == ReturnedList(env)
    IN  {xs[n].d["pointValue"] :
            n \in {m \in 1..Len(xs) :
                      /\ xs[m].t = "dict"
                      /\ "pointId" \in DOMAIN xs[m].d
                      /\ "pointValue" \in DOMAIN xs[m].d
                      /\ xs[m].d["pointId"] = KeyV("SUB")}}

SpecExampleSub ==
    <<" ", "A", "B", "C", "1", "2", "3", " ", ",", " ", "D", "E", "F", "4", "5", "6">>

\* C12: in a BMS step taken with an empty module serial, a failed call leaves
\* it empty; after a successful call whose section was stored, the serial is
\* the first token of the SUB value if SUB is a str with a token, and stays
\* empty if SUB is absent, empty or all blanks and commas.  For the value
\* " ABC123 , DEF456" the serial is ABC123.
C12_FirstTokenAdopted ==
    /\ Discover(<<>>, DictV("SUB" :> StrV(SpecExampleSub))).sn = <<"A", "B", "C", "1", "2", "3">>
    /\ [][(pc = "bms" /\ api.sn_module = <<>> /\ pc' \in {"dongle", "raised"}) =>
            /\ lastOut'.kind = "raise" => api'.sn_module = <<>>
            /\ "bms" \notin DOMAIN result' => api'.sn_module = <<>>
            /\ (lastOut'.kind = "return" /\ "bms" \in DOMAIN result') =>
                  IF \E v \in SubValues(lastOut'.env) : v.t = "str" /\ HasToken(v.s)
                  THEN \E v \in SubValues(lastOut'.env) :
                          v.t = "str" /\ IsFirstToken(v.s, api'.sn_module)
                  ELSE api'.sn_module = <<>>]_vars

\* The previous cycle stored a SUB of blanks and commas only; this cycle's
\* answer " A1 ,B2" has made A1 the module serial.
C12_AdoptedInLaterCycle ==
    /\ pc = "dongle"
    /\ data.t = "dict"
    /\ Get(data.d["bms"].d, "SUB") = StrV(<<" ", ",", " ">>)
    /\ lastOut.kind = "return"
    /\ Get(result["bms"].d, "SUB") = StrV(<<" ", "A", "1", " ", ",", "B", "2">>)
    /\ api.sn_module = <<"A", "1">>

\* C13: a section whose success-coded answer could not be processed is the
\* empty map in the result, no exception leaves get_all_data, and the cycle
\* goes on to attempt the remaining fetches and return all four sections.
C13_ProcessingFailureContained ==
    \A key \in DOMAIN outcomes :
        outcomes[key] = "exception" =>
            /\ pc # "raised"
            /\ key \in DOMAIN result
            /\ result[key] = EmptyDict
            /\ pc = "return" => (attempts = CycleRequests(api) /\ DOMAIN result = SectionKeys)

====
